---- MODULE Spec2Model ----
(***************************************************************************)
(* Model of the ray tracer in src/src/renderer/index.ts (class Renderer,   *)
(* second definition, lines 229-637).                                      *)
(*                                                                         *)
(* Numbers.  A JavaScript number is modelled as a fixed-point value: the   *)
(* integer n stands for n / Scale.  The three non-finite values of IEEE    *)
(* arithmetic are kept as values of their own (PInf, NInf, NaN) with the   *)
(* IEEE rules for them: x/0 is an infinity or NaN, Infinity * 0 and        *)
(* Infinity - Infinity are NaN, every comparison with NaN is false.        *)
(* Finite results are truncated to the resolution 1/Scale.  Negative zero  *)
(* is not distinguished from zero.                                         *)
(***************************************************************************)
EXTENDS Integers, Sequences, FiniteSets

\* resolution of the fixed-point numbers: 0.001 (the shadow/reflection tMin) is 1
Scale == 1000

\* Infinity, -Infinity and NaN
PInf == 2000000000
NInf == -PInf
NaN == PInf + 1

IsNaN(a) == a = NaN
IsInf(a) == a = PInf \/ a = NInf
IsFin(a) == a > NInf /\ a < PInf

Abs(a) == IF a < 0 THEN -a ELSE a
Sgn(a) == IF a < 0 THEN -1 ELSE IF a > 0 THEN 1 ELSE 0

\* the whole number n as a fixed-point value
Num(n) == n * Scale

(***************************************************************************)
(* IEEE comparisons: false as soon as one side is NaN.                     *)
(***************************************************************************)
Lt(a, b) == ~IsNaN(a) /\ ~IsNaN(b) /\ a < b
Gt(a, b) == ~IsNaN(a) /\ ~IsNaN(b) /\ a > b
Le(a, b) == ~IsNaN(a) /\ ~IsNaN(b) /\ a <= b
Eq(a, b) == ~IsNaN(a) /\ ~IsNaN(b) /\ a = b
Ge(a, b) == ~IsNaN(a) /\ ~IsNaN(b) /\ a >= b

(***************************************************************************)
(* IEEE arithmetic on the fixed-point values.                              *)
(***************************************************************************)
Neg(a) == IF IsNaN(a) THEN NaN ELSE -a

Add(a, b) ==
  IF IsNaN(a) \/ IsNaN(b) THEN NaN
  ELSE IF IsInf(a) THEN (IF IsInf(b) /\ a # b THEN NaN ELSE a)
  ELSE IF IsInf(b) THEN b
  ELSE a + b

Sub(a, b) == Add(a, Neg(b))

Mul(a, b) ==
  IF IsNaN(a) \/ IsNaN(b) THEN NaN
  ELSE IF IsInf(a) \/ IsInf(b)
       THEN (IF a = 0 \/ b = 0 THEN NaN
             ELSE IF Sgn(a) * Sgn(b) > 0 THEN PInf ELSE NInf)
  ELSE LET hi == IF Abs(a) >= Abs(b) THEN Abs(a) ELSE Abs(b)
           lo == IF Abs(a) >= Abs(b) THEN Abs(b) ELSE Abs(a)
       IN  Sgn(a) * Sgn(b) * ((hi \div Scale) * lo + ((hi % Scale) * lo) \div Scale)

\* x / y for finite x >= 0, y > 0; a large divisor is first cut to 1/Scale of itself
DivFin(x, y) ==
  IF y <= 2000 * Scale
  THEN (x \div y) * Scale + ((x % y) * Scale) \div y
  ELSE LET x2 == x \div Scale
           y2 == y \div Scale
       IN  (x2 \div y2) * Scale + ((x2 % y2) * Scale) \div y2

Div(a, b) ==
  IF IsNaN(a) \/ IsNaN(b) THEN NaN
  ELSE IF IsInf(a)
       THEN (IF IsInf(b) THEN NaN
             ELSE IF (a > 0) = (b >= 0) THEN PInf ELSE NInf)
  ELSE IF IsInf(b) THEN 0
  ELSE IF b = 0
       THEN (IF a = 0 THEN NaN ELSE IF a > 0 THEN PInf ELSE NInf)
  ELSE Sgn(a) * Sgn(b) * DivFin(Abs(a), Abs(b))

\* largest r with r * r <= n, by bisection on lo <= r < hi
RECURSIVE SqrtSearch(_, _, _)
SqrtSearch(n, lo, hi) ==
  IF hi - lo <= 1 THEN lo
  ELSE LET mid == (lo + hi) \div 2
       IN  IF mid * mid <= n THEN SqrtSearch(n, mid, hi) ELSE SqrtSearch(n, lo, mid)

ISqrt(n) == SqrtSearch(n, 0, 46341)

\* Math.sqrt
Sqrt(a) ==
  IF IsNaN(a) \/ a < 0 THEN NaN
  ELSE IF a = PInf THEN PInf
  ELSE IF a <= 2000 * Scale THEN ISqrt(a * Scale)
  ELSE ISqrt(a \div 10) * 100

\* Math.min
MathMin(a, b) == IF IsNaN(a) \/ IsNaN(b) THEN NaN ELSE IF a < b THEN a ELSE b

\* base ^ n for a natural number n, by repeated squaring
RECURSIVE PowNat(_, _)
PowNat(base, n) ==
  IF n = 0 THEN Scale
  ELSE IF n % 2 = 1 THEN Mul(base, PowNat(Mul(base, base), n \div 2))
  ELSE PowNat(Mul(base, base), n \div 2)

\* Math.pow, for the exponents a Phong highlight uses (whole numbers >= 0)
Pow(base, s) == PowNat(base, s \div Scale)

(***************************************************************************)
(* Vector3 operations (index.ts 562-610).  A Vector3 is a 3-tuple.         *)
(***************************************************************************)
dot(v1, v2) == Add(Add(Add(0, Mul(v1[1], v2[1])), Mul(v1[2], v2[2])), Mul(v1[3], v2[3]))

cross(v1, v2) ==
  << Sub(Mul(v1[2], v2[3]), Mul(v1[3], v2[2])),
     Sub(Mul(v1[3], v2[1]), Mul(v1[1], v2[3])),
     Sub(Mul(v1[1], v2[2]), Mul(v1[2], v2[1])) >>

add(v1, v2) == << Add(v1[1], v2[1]), Add(v1[2], v2[2]), Add(v1[3], v2[3]) >>

subtract(v1, v2) == << Sub(v1[1], v2[1]), Sub(v1[2], v2[2]), Sub(v1[3], v2[3]) >>

multiplyByScalar(v1, a) == << Mul(v1[1], a), Mul(v1[2], a), Mul(v1[3], a) >>

length(v1) ==
  Sqrt(Add(Add(Add(0, Mul(v1[1], v1[1])), Mul(v1[2], v1[2])), Mul(v1[3], v1[3])))

reflectRay(ray, normal) ==
  LET nDotR == dot(normal, ray)
  IN  subtract(multiplyByScalar(normal, Mul(Num(2), nDotR)), ray)

(***************************************************************************)
(* Primitives.  A sphere is [kind |-> "sphere", C, r, color, specular,     *)
(* reflective], a triangle [kind |-> "triangle", a, b, c, color, specular, *)
(* reflective]; Null stands for null, NullVec for a null Vector3.          *)
(***************************************************************************)
Null == [kind |-> "null"]
NullVec == << >>

(***************************************************************************)
(* A value the code computes once and reads several times is handed on as  *)
(* an operator's parameter, so each function of the code is a chain of     *)
(* operators, one per stretch of its body.                                 *)
(***************************************************************************)
\* intersectRaySphere 447-450: the two roots [t1, t2]
SphereRoots(a, b, root) ==
  << Div(Add(Neg(b), root), Mul(Num(2), a)), Div(Sub(Neg(b), root), Mul(Num(2), a)) >>

\* intersectRaySphere 441-445
SphereDiscriminant(a, b, discriminant) ==
  IF Lt(discriminant, 0) THEN << PInf, PInf >> ELSE SphereRoots(a, b, Sqrt(discriminant))

\* intersectRaySphere 437-441
SphereQuadratic(a, b, c) == SphereDiscriminant(a, b, Sub(Mul(b, b), Mul(Mul(Num(4), a), c)))

\* intersectRaySphere 435-439
SphereCo(co, viewportPoint, sphere) ==
  SphereQuadratic(dot(viewportPoint, viewportPoint),
                  Mul(dot(co, viewportPoint), Num(2)),
                  Sub(dot(co, co), Mul(sphere.r, sphere.r)))

intersectRaySphere(origin, viewportPoint, sphere) ==
  SphereCo(subtract(origin, sphere.C), viewportPoint, sphere)

\* intersectRayTriangle 494-506: << >> stands for [null, null]
TriangleInside(t, normal, alpha, beta, gamma) ==
  IF Lt(alpha, 0) \/ Gt(alpha, Num(1)) THEN << >>
  ELSE IF Lt(beta, 0) \/ Gt(beta, Num(1)) THEN << >>
  ELSE IF Lt(gamma, 0) \/ Gt(gamma, Num(1)) THEN << >>
  ELSE << t, normal >>

\* intersectRayTriangle 492
TriangleGamma(t, normal, alpha, beta) ==
  TriangleInside(t, normal, alpha, beta, Sub(Sub(Num(1), alpha), beta))

\* intersectRayTriangle 490-491
TriangleBarycentric(t, normal, dotAB, dotABAC, dotAC, dotAPAB, dotAPAC, denom) ==
  TriangleGamma(t, normal,
                Div(Sub(Mul(dotAC, dotAPAB), Mul(dotABAC, dotAPAC)), denom),
                Div(Sub(Mul(dotAB, dotAPAC), Mul(dotABAC, dotAPAB)), denom))

\* intersectRayTriangle 489
TriangleDenom(t, normal, dotAB, dotABAC, dotAC, dotAPAB, dotAPAC) ==
  TriangleBarycentric(t, normal, dotAB, dotABAC, dotAC, dotAPAB, dotAPAC,
                      Sub(Mul(dotAB, dotAC), Mul(dotABAC, dotABAC)))

\* intersectRayTriangle 484-488
TriangleDots(t, normal, AB, AC, AP) ==
  TriangleDenom(t, normal, dot(AB, AB), dot(AB, AC), dot(AC, AC), dot(AP, AB), dot(AP, AC))

\* intersectRayTriangle 472-480
TriangleAt(origin, viewportPoint, triangle, normal, t) ==
  IF Lt(t, 0) THEN << >>
  ELSE TriangleDots(t, normal,
                    subtract(triangle.b, triangle.a),
                    subtract(triangle.c, triangle.a),
                    subtract(add(origin, multiplyByScalar(viewportPoint, t)), triangle.a))

\* intersectRayTriangle 465-471
TrianglePlane(origin, viewportPoint, triangle, normal, nDotD) ==
  IF Eq(nDotD, 0) THEN << >>
  ELSE TriangleAt(origin, viewportPoint, triangle, normal,
                  Mul(Num(-1), Div(dot(normal, subtract(origin, triangle.a)), nDotD)))

\* intersectRayTriangle 464
TriangleNormal(origin, viewportPoint, triangle, normal) ==
  TrianglePlane(origin, viewportPoint, triangle, normal, dot(normal, viewportPoint))

\* intersectRayTriangle 462
TriangleCross(origin, viewportPoint, triangle, crs) ==
  TriangleNormal(origin, viewportPoint, triangle,
                 multiplyByScalar(crs, Div(Num(1), length(crs))))

intersectRayTriangle(origin, viewportPoint, triangle) ==
  TriangleCross(origin, viewportPoint, triangle,
                cross(subtract(triangle.b, triangle.a), subtract(triangle.c, triangle.a)))

\* the test with the ends of the range let in: t >= tMin && t <= tMax
AcceptsClosed(t, tMin, tMax, closestT) == Ge(t, tMin) /\ Le(t, tMax) /\ Lt(t, closestT)

\* the test of a candidate t against the range and the best so far (399, 420)
Accepts(t, tMin, tMax, closestT) == Gt(t, tMin) /\ Lt(t, tMax) /\ Lt(t, closestT)

\* closestIntersection 408-409: the sphere's normal at the intersection
SphereNormal(n) == multiplyByScalar(n, Div(Num(1), length(n)))

\* closestIntersection 399-410: the body of the loop over a sphere's roots
SphereRoot(acc, origin, viewportPoint, tMin, tMax, sphere, t) ==
  IF Accepts(t, tMin, tMax, acc.closestT)
  THEN [closestIntersection |-> sphere,
        closestT |-> t,
        closestNormal |->
          SphereNormal(subtract(add(origin, multiplyByScalar(viewportPoint, t)), sphere.C))]
  ELSE acc

\* closestIntersection 398-411: the loop over the roots of one sphere
SphereBoth(acc, origin, viewportPoint, tMin, tMax, sphere, intersects) ==
  SphereRoot(SphereRoot(acc, origin, viewportPoint, tMin, tMax, sphere, intersects[1]),
             origin, viewportPoint, tMin, tMax, sphere, intersects[2])

\* closestIntersection 395-412: the loop over the spheres, from sphere i on
RECURSIVE SphereLoop(_, _, _, _, _, _, _)
SphereLoop(acc, spheres, i, origin, viewportPoint, tMin, tMax) ==
  IF i > Len(spheres) THEN acc
  ELSE SphereLoop(SphereBoth(acc, origin, viewportPoint, tMin, tMax, spheres[i],
                             intersectRaySphere(origin, viewportPoint, spheres[i])),
                  spheres, i + 1, origin, viewportPoint, tMin, tMax)

\* the test of 420 written as the rejection of t <= tMin, t >= tMax and
\* t >= closestT: a t that is NaN passes
TriangleHitNegated(acc, tMin, tMax, triangle, res) ==
  IF res # << >> /\ ~Le(res[1], tMin) /\ ~Ge(res[1], tMax) /\ ~Ge(res[1], acc.closestT)
  THEN [closestIntersection |-> triangle, closestT |-> res[1], closestNormal |-> res[2]]
  ELSE acc

\* closestIntersection 420-424: res is what intersectRayTriangle returned
TriangleHit(acc, tMin, tMax, triangle, res) ==
  IF res # << >> /\ Accepts(res[1], tMin, tMax, acc.closestT)
  THEN [closestIntersection |-> triangle, closestT |-> res[1], closestNormal |-> res[2]]
  ELSE acc

\* closestIntersection 414-425: the loop over the triangles, from triangle i on
RECURSIVE TriangleLoop(_, _, _, _, _, _, _)
TriangleLoop(acc, triangles, i, origin, viewportPoint, tMin, tMax) ==
  IF i > Len(triangles) THEN acc
  ELSE TriangleLoop(TriangleHit(acc, tMin, tMax, triangles[i],
                                intersectRayTriangle(origin, viewportPoint, triangles[i])),
                    triangles, i + 1, origin, viewportPoint, tMin, tMax)

closestIntersection(sc, origin, viewportPoint, tMin, tMax) ==
  TriangleLoop(SphereLoop([closestIntersection |-> Null, closestT |-> PInf,
                           closestNormal |-> NullVec],
                          sc.spheres, 1, origin, viewportPoint, tMin, tMax),
               sc.triangles, 1, origin, viewportPoint, tMin, tMax)

(***************************************************************************)
(* computeLighting (509-560).  A light is [type |-> "ambient", intensity], *)
(* [type |-> "point", intensity, position] or [type |-> "directional",     *)
(* intensity, direction].                                                  *)
(***************************************************************************)
\* L of a point light brought to length 1 before the shadow test
LightVectorNormalized(light, point) ==
  IF light.type = "point"
  THEN multiplyByScalar(subtract(light.position, point),
                        Div(Num(1), length(subtract(light.position, point))))
  ELSE light.direction

\* the light direction L (519-528)
LightVector(light, point) ==
  IF light.type = "point" THEN subtract(light.position, point) ELSE light.direction

\* [tMin, tMax] of the shadow ray (520, 527)
ShadowRange(light) ==
  IF light.type = "point" THEN << 1, Num(1) >> ELSE << 1, PInf >>

\* the shadow test (531-540)
Shadowed(sc, light, point) ==
  closestIntersection(sc, point, LightVector(light, point),
                      ShadowRange(light)[1], ShadowRange(light)[2]).closestIntersection # Null

\* the diffuse term (542-546): the new value of i
DiffuseTerm(i, light, L, normal, nDotL) ==
  IF Gt(nDotL, 0)
  THEN Add(i, Div(Mul(light.intensity, nDotL), Mul(length(normal), length(L))))
  ELSE i

Diffuse(i, light, L, normal) == DiffuseTerm(i, light, L, normal, dot(normal, L))

\* the specular term (550-555): the new value of i
SpecularTerm(i, light, R, v, s, rDotV) ==
  IF Gt(rDotV, 0)
  THEN Add(i, Mul(light.intensity, Pow(Div(rDotV, Mul(length(R), length(v))), s)))
  ELSE i

SpecularReflected(i, light, R, v, s) == SpecularTerm(i, light, R, v, s, dot(R, v))

\* 548-556
Specular(i, light, L, normal, v, s) ==
  IF s # Num(-1) THEN SpecularReflected(i, light, reflectRay(L, normal), v, s) ELSE i

\* 542-556, L known
Lit(i, light, L, normal, v, s) ==
  Specular(Diffuse(i, light, L, normal), light, L, normal, v, s)

\* the iteration without the shadow test of 531-540
LightStepNoShadow(sc, i, light, point, normal, v, s) ==
  IF light.type = "ambient" THEN Add(i, light.intensity)
  ELSE Lit(i, light, LightVector(light, point), normal, v, s)

\* one iteration of the loop over the lights (513-556): the new value of i
LightStep(sc, i, light, point, normal, v, s) ==
  IF light.type = "ambient" THEN Add(i, light.intensity)
  ELSE IF Shadowed(sc, light, point) THEN i
  ELSE Lit(i, light, LightVector(light, point), normal, v, s)

\* the loop over the lights (512-557), from light k on
RECURSIVE LightLoop(_, _, _, _, _, _, _)
LightLoop(sc, i, k, point, normal, v, s) ==
  IF k > Len(sc.lights) THEN i
  ELSE LightLoop(sc, LightStep(sc, i, sc.lights[k], point, normal, v, s),
                 k + 1, point, normal, v, s)

computeLighting(sc, point, normal, v, s) == LightLoop(sc, 0, 1, point, normal, v, s)

(***************************************************************************)
(* Scenes.  The renderer's own scene (230-284), the scene its commented    *)
(* spheres describe, and scenes that exercise the cases of the claims.     *)
(***************************************************************************)
Sphere(C, r, color, specular, reflective) ==
  [kind |-> "sphere", C |-> C, r |-> r, color |-> color,
   specular |-> specular, reflective |-> reflective]

Triangle(a, b, c, color, specular, reflective) ==
  [kind |-> "triangle", a |-> a, b |-> b, c |-> c, color |-> color,
   specular |-> specular, reflective |-> reflective]

Ambient(intensity) == [type |-> "ambient", intensity |-> intensity]
PointLight(intensity, position) ==
  [type |-> "point", intensity |-> intensity, position |-> position]
Directional(intensity, direction) ==
  [type |-> "directional", intensity |-> intensity, direction |-> direction]

\* lights of the renderer's scene (261-265)
SceneLights ==
  << Ambient(200),
     PointLight(600, << 2000, 1000, 0 >>),
     Directional(200, << 1000, 4000, 4000 >>) >>

\* the scene the renderer is built with (230-284)
SourceScene ==
  [spheres |-> << >>,
   lights |-> SceneLights,
   triangles |->
     << Triangle(<< 0, 100, 2000 >>, << 200, -100, 2000 >>, << -200, -100, 2000 >>,
                 << Num(0), Num(255), Num(255) >>, Num(500), 300),
        Triangle(<< 0, 100, 2000 >>, << 200, -100, 2000 >>, << 200, -100, 40000 >>,
                 << Num(0), Num(255), Num(255) >>, Num(500), 300) >>]

\* the spheres commented out at 232-252 (the sphere of radius 5000 left out)
SphereScene ==
  [spheres |->
     << Sphere(<< 0, -1000, 3000 >>, Num(1), << Num(255), 0, 0 >>, Num(500), 200),
        Sphere(<< 2000, 0, 4000 >>, Num(1), << 0, 0, Num(255) >>, Num(500), 300),
        Sphere(<< -2000, 0, 4000 >>, Num(1), << 0, Num(255), 0 >>, Num(10), 400) >>,
   lights |-> SceneLights,
   triangles |-> << >>]

\* two reflective surfaces facing each other, the camera between them
MirrorScene ==
  [spheres |-> << >>,
   lights |-> << Ambient(500), PointLight(600, << 0, 0, Num(1) >>),
                 Directional(200, << 0, 0, Num(1) >>) >>,
   triangles |->
     << Triangle(<< Num(-10), Num(-5), Num(3) >>, << Num(10), Num(-5), Num(3) >>,
                 << 0, Num(5), Num(3) >>, << Num(200), Num(100), 0 >>, Num(-1), 250),
        Triangle(<< Num(-10), Num(-5), Num(-2) >>, << Num(10), Num(-5), Num(-2) >>,
                 << 0, Num(5), Num(-2) >>, << 0, Num(100), Num(200) >>, Num(10), 500) >>]

\* a sphere over a floor, in bright ambient light, under a point light and a
\* directional light that it hides from the floor below it; a point light on the
\* sphere's surface; a sphere of radius 0 and a zero-area triangle (three points
\* of one line) in front of the camera
OccluderScene ==
  [spheres |->
     << Sphere(<< 0, 0, Num(3) >>, Num(1), << Num(255), Num(50), 0 >>, Num(-1), 0),
        Sphere(<< 0, 0, Num(1) >>, 0, << 0, 0, Num(255) >>, Num(-1), 0) >>,
   lights |-> << Ambient(Num(2)),
                 PointLight(Num(3), << 0, Num(4), Num(3) >>),
                 Directional(400, << 0, Num(1), 0 >>),
                 PointLight(300, << 0, 0, Num(2) >>) >>,
   triangles |->
     << Triangle(<< Num(-10), Num(-2), Num(-2) >>, << Num(10), Num(-2), Num(-2) >>,
                 << 0, Num(-2), Num(23) >>, << Num(255), Num(50), 0 >>, Num(2), 0),
        Triangle(<< Num(-1), 0, Num(2) >>, << 0, 0, Num(2) >>, << Num(1), 0, Num(2) >>,
                 << 0, Num(255), 0 >>, Num(-1), 1000) >>]

Scenes == << SourceScene, SphereScene, MirrorScene, OccluderScene >>

(***************************************************************************)
(* The renderer's state.                                                   *)
(*   scene      which of Scenes the renderer holds (field scene)           *)
(*   cw, ch     canvas.width, canvas.height                                *)
(*   x, y       the loop counters of render                                *)
(*   pc         where render is: "idle", "loop", "trace", "done", "cleared"*)
(*   stack      the traceRay calls in progress, the innermost last         *)
(*   ret        << >>, or << c >> for the colour c a traceRay call returned*)
(*   data       imageData.data                                             *)
(*   presented  the pixels handed to context.putImageData                  *)
(*   writes     history: the calls of putPixel, in order, each with the    *)
(*              number of computeLighting calls made for its pixel         *)
(*   shades     history: the computeLighting calls of the current pixel    *)
(*   probe      a single call of closestIntersection or computeLighting    *)
(***************************************************************************)
VARIABLES scene, cw, ch, x, y, pc, stack, ret, data, presented, writes, shades, probe

vars == << scene, cw, ch, x, y, pc, stack, ret, data, presented, writes, shades, probe >>

\* largest canvas width and height
MaxDim == 3

\* default recursionDepth of traceRay (338)
RecursionDepth == 3

vw == Num(1)
vh == Num(1)
vd == Num(1)
backgroundColor == << 0, 0, 0 >>

TheScene == Scenes[scene]

\* new ImageData(width, height): every byte 0
ImageData(width, height) == [i \in 0 .. (4 * width * height - 1) |-> 0]

canvasToViewport(cx, cy) ==
  << Div(Mul(cx, vw), Num(cw)), Div(Mul(cy, vh), Num(ch)), vd >>

\* the value a Uint8Array would keep: the whole part modulo 256
ToUint8Wrap(v) == IF ~IsFin(v) THEN 0 ELSE (Sgn(v) * (Abs(v) \div Scale)) % 256

\* the value a Uint8ClampedArray keeps of a number stored into it
ToUint8Clamp(v) ==
  IF IsNaN(v) \/ v <= 0 THEN 0
  ELSE IF v >= Num(255) THEN 255
  ELSE LET whole == v \div Scale
           frac == v % Scale
       IN  IF 2 * frac > Scale \/ (2 * frac = Scale /\ whole % 2 = 1)
           THEN whole + 1 ELSE whole

\* index of putPixel (613-616), a fixed-point number
PixelIndex(cx, cy) ==
  Mul(Num(4), Add(Mul(Sub(Div(Num(ch), Num(2)), cy), Num(cw)),
                  Add(Div(Num(cw), Num(2)), cx)))

\* imageData.data[index + k] = v: a store outside the array changes nothing
Store(d, index, k, v) ==
  IF IsFin(index) /\ index % Scale = 0 /\ (index \div Scale) + k \in DOMAIN d
  THEN [d EXCEPT ![(index \div Scale) + k] = ToUint8Clamp(v)]
  ELSE d

\* putPixel 618-621
PutAt(d, index, color) ==
  Store(Store(Store(Store(d, index, 0, MathMin(color[1], Num(255))),
                    index, 1, MathMin(color[2], Num(255))),
              index, 2, MathMin(color[3], Num(255))),
        index, 3, Num(255))

\* putPixel: the new imageData.data
putPixel(d, cx, cy, color) == PutAt(d, PixelIndex(cx, cy), color)

(***************************************************************************)
(* traceRay (333-383), one call a frame of the stack.                      *)
(***************************************************************************)
Frame(origin, viewportPoint, tMin, tMax, recursionDepth) ==
  [origin |-> origin, viewportPoint |-> viewportPoint, tMin |-> tMin, tMax |-> tMax,
   recursionDepth |-> recursionDepth, at |-> "enter", color |-> NullVec, r |-> 0]

Top == stack[Len(stack)]
Pop == SubSeq(stack, 1, Len(stack) - 1)

\* 340-341
Hit(f) == closestIntersection(TheScene, f.origin, f.viewportPoint, f.tMin, f.tMax)

\* 343
IsMiss(h) == h.closestIntersection = Null \/ h.closestNormal = NullVec

\* 347-350
HitPoint(f, h) == add(f.origin, multiplyByScalar(f.viewportPoint, h.closestT))

\* 354-362
LocalColor(f, h) ==
  multiplyByScalar(h.closestIntersection.color,
                   computeLighting(TheScene, HitPoint(f, h), h.closestNormal,
                                   multiplyByScalar(f.viewportPoint, Num(-1)),
                                   h.closestIntersection.specular))

\* the limit tested as recursionDepth < 0
StopsRecursionBelowZero(recursionDepth, r) == recursionDepth < 0 \/ Le(r, 0)

\* the recursion limit (366)
StopsRecursion(recursionDepth, r) == recursionDepth <= 0 \/ Le(r, 0)

\* the recursive call (370-377)
ReflectedFrame(f, h) ==
  Frame(HitPoint(f, h),
        reflectRay(multiplyByScalar(f.viewportPoint, Num(-1)), h.closestNormal),
        1, PInf, f.recursionDepth - 1)

\* the blend with its two weights exchanged
BlendSwapped(color, r, reflectedColor) ==
  add(multiplyByScalar(color, r), multiplyByScalar(reflectedColor, Sub(Num(1), r)))

\* 379-382
Blend(color, r, reflectedColor) ==
  add(multiplyByScalar(color, Sub(Num(1), r)), multiplyByScalar(reflectedColor, r))

NoProbe == [op |-> "none"]

Init ==
  /\ scene \in 1 .. Len(Scenes)
  /\ cw \in 1 .. MaxDim
  /\ ch \in 1 .. MaxDim
  /\ x = 0
  /\ y = 0
  /\ pc = "idle"
  /\ stack = << >>
  /\ ret = << >>
  /\ data = ImageData(cw, ch)
  /\ presented = ImageData(cw, ch)
  /\ writes = << >>
  /\ shades = 0
  /\ probe = NoProbe

\* render is called: the loops start (315-316)
Render ==
  /\ pc = "idle"
  /\ pc' = "loop"
  /\ x' = Neg(Div(Num(cw), Num(2)))
  /\ y' = Neg(Div(Num(ch), Num(2)))
  /\ UNCHANGED << scene, cw, ch, stack, ret, data, presented, writes, shades, probe >>

\* the loop body up to the call of traceRay (318-319)
RenderPixel ==
  /\ pc = "loop"
  /\ Lt(x, Div(Num(cw), Num(2)))
  /\ Lt(y, Div(Num(ch), Num(2)))
  /\ pc' = "trace"
  /\ stack' = << Frame(<< 0, 0, 0 >>, canvasToViewport(x, y), Num(1), PInf, RecursionDepth) >>
  /\ ret' = << >>
  /\ shades' = 0
  /\ UNCHANGED << scene, cw, ch, x, y, data, presented, writes, probe >>

\* traceRay finds no intersection and returns the background colour (343-345)
TraceMiss ==
  /\ pc = "trace" /\ stack # << >> /\ Top.at = "enter"
  /\ IsMiss(Hit(Top))
  /\ ret' = << backgroundColor >>
  /\ stack' = Pop
  /\ UNCHANGED << scene, cw, ch, x, y, pc, data, presented, writes, shades, probe >>

\* 347-368 with the intersection h: the local colour is returned
ReturnLocal(h) ==
  /\ ~IsMiss(h)
  /\ StopsRecursion(Top.recursionDepth, h.closestIntersection.reflective)
  /\ ret' = << LocalColor(Top, h) >>

\* traceRay shades the hit and returns the local colour (347-368)
TraceLocal ==
  /\ pc = "trace" /\ stack # << >> /\ Top.at = "enter"
  /\ ReturnLocal(Hit(Top))
  /\ stack' = Pop
  /\ shades' = shades + 1
  /\ UNCHANGED << scene, cw, ch, x, y, pc, data, presented, writes, probe >>

\* 347-377 with the intersection h: the call waits for the reflected colour
CallReflected(h) ==
  /\ ~IsMiss(h)
  /\ ~StopsRecursion(Top.recursionDepth, h.closestIntersection.reflective)
  /\ stack' = Append([stack EXCEPT ![Len(stack)] =
                        [@ EXCEPT !.at = "await",
                                  !.color = LocalColor(Top, h),
                                  !.r = h.closestIntersection.reflective]],
                     ReflectedFrame(Top, h))

\* traceRay shades the hit and calls itself for the reflected ray (347-377)
TraceReflect ==
  /\ pc = "trace" /\ stack # << >> /\ Top.at = "enter"
  /\ CallReflected(Hit(Top))
  /\ shades' = shades + 1
  /\ UNCHANGED << scene, cw, ch, x, y, pc, ret, data, presented, writes, probe >>

\* the recursive call has returned: traceRay blends and returns (379-382)
TraceReturn ==
  /\ pc = "trace" /\ stack # << >> /\ Top.at = "await" /\ ret # << >>
  /\ ret' = << Blend(Top.color, Top.r, ret[1]) >>
  /\ stack' = Pop
  /\ UNCHANGED << scene, cw, ch, x, y, pc, data, presented, writes, shades, probe >>

\* putPixel and the step of the loops (320, 315-316)
PutPixel ==
  /\ pc = "trace" /\ stack = << >> /\ ret # << >>
  /\ data' = putPixel(data, x, y, ret[1])
  /\ writes' = Append(writes, [cx |-> x, cy |-> y, index |-> PixelIndex(x, y),
                                color |-> ret[1], shades |-> shades])
  /\ IF Lt(Add(y, Num(1)), Div(Num(ch), Num(2)))
     THEN x' = x /\ y' = Add(y, Num(1))
     ELSE x' = Add(x, Num(1)) /\ y' = Neg(Div(Num(ch), Num(2)))
  /\ pc' = "loop"
  /\ ret' = << >>
  /\ UNCHANGED << scene, cw, ch, stack, presented, shades, probe >>

\* the loops are over: putImageData (323, 624-626)
PutImageData ==
  /\ pc = "loop"
  /\ ~Lt(x, Div(Num(cw), Num(2)))
  /\ presented' = data
  /\ pc' = "done"
  /\ UNCHANGED << scene, cw, ch, x, y, stack, ret, data, writes, shades, probe >>

\* clear (628-636)
Clear ==
  /\ pc = "done"
  /\ data' = ImageData(cw, ch)
  /\ presented' = ImageData(cw, ch)
  /\ pc' = "cleared"
  /\ UNCHANGED << scene, cw, ch, x, y, stack, ret, writes, shades, probe >>

Next ==
  \/ Render
  \/ RenderPixel
  \/ TraceMiss
  \/ TraceLocal
  \/ TraceReflect
  \/ TraceReturn
  \/ PutPixel
  \/ PutImageData
  \/ Clear

Spec == Init /\ [][Next]_vars

(***************************************************************************)
(* Single calls of closestIntersection and computeLighting, on arguments   *)
(* drawn from bounded sets.  probe holds the arguments, whether the call   *)
(* was made, and what it returned; for computeLighting also, per light,    *)
(* whether the test at 538 found the light shadowed.                       *)
(***************************************************************************)
\* largest component of a probed ray direction
MaxDir == 1

ProbePoints ==
  { << 0, 0, 0 >>, << 0, Num(-2), Num(3) >>, << 0, Num(2), Num(3) >>,
    << 0, Num(6), Num(3) >>, << 0, 0, Num(2) >> }

ProbeDirs ==
  { << Num(a), Num(b), Num(c) >> : a \in -MaxDir .. MaxDir, b \in -MaxDir .. MaxDir,
                                   c \in -MaxDir .. MaxDir }

\* the ranges the code uses (319, 374-375, 520, 527) and one with both ends finite
ProbeRanges == { << Num(1), PInf >>, << 1, PInf >>, << 1, Num(1) >>, << Num(2), Num(4) >> }

ProbeNormals ==
  { << 0, Num(1), 0 >>, << 0, Num(-1), 0 >>, << 0, 0, Num(1) >>, << 0, 0, Num(-1) >>,
    << Num(1), 0, 0 >> }

ProbeViews == { << 0, 0, Num(-1) >>, << 0, Num(1), 0 >>, << 500, 500, Num(-1) >> }

ProbeSpeculars == { Num(-1), Num(2), Num(10) }

NoHit == [closestIntersection |-> Null, closestT |-> PInf, closestNormal |-> NullVec]

ProbeInit ==
  /\ scene \in 1 .. Len(Scenes)
  /\ cw = 1
  /\ ch = 1
  /\ x = 0
  /\ y = 0
  /\ pc = "probe"
  /\ stack = << >>
  /\ ret = << >>
  /\ data = ImageData(1, 1)
  /\ presented = ImageData(1, 1)
  /\ writes = << >>
  /\ shades = 0
  /\ \/ \E origin \in ProbePoints, viewportPoint \in ProbeDirs, range \in ProbeRanges :
          probe = [op |-> "closestIntersection", origin |-> origin,
                   viewportPoint |-> viewportPoint, tMin |-> range[1], tMax |-> range[2],
                   called |-> FALSE, res |-> NoHit]
     \/ \E point \in ProbePoints, normal \in ProbeNormals, v \in ProbeViews,
           s \in ProbeSpeculars :
          probe = [op |-> "computeLighting", point |-> point, normal |-> normal,
                   v |-> v, s |-> s, called |-> FALSE, res |-> 0, shadow |-> << >>]

CallClosestIntersection ==
  /\ pc = "probe" /\ probe.op = "closestIntersection" /\ ~probe.called
  /\ probe' = [probe EXCEPT
                 !.called = TRUE,
                 !.res = closestIntersection(TheScene, probe.origin, probe.viewportPoint,
                                             probe.tMin, probe.tMax)]
  /\ UNCHANGED << scene, cw, ch, x, y, pc, stack, ret, data, presented, writes, shades >>

CallComputeLighting ==
  /\ pc = "probe" /\ probe.op = "computeLighting" /\ ~probe.called
  /\ probe' = [probe EXCEPT
                 !.called = TRUE,
                 !.res = computeLighting(TheScene, probe.point, probe.normal, probe.v, probe.s),
                 !.shadow = [k \in 1 .. Len(TheScene.lights) |->
                               /\ TheScene.lights[k].type # "ambient"
                               /\ Shadowed(TheScene, TheScene.lights[k], probe.point)]]
  /\ UNCHANGED << scene, cw, ch, x, y, pc, stack, ret, data, presented, writes, shades >>

ProbeNext ==
  \/ CallClosestIntersection
  \/ CallComputeLighting

ProbeSpec == ProbeInit /\ [][ProbeNext]_vars

(***************************************************************************)
(* Properties.                                                             *)
(***************************************************************************)

\* the call of putPixel w addressed a pixel of the buffer
InBuffer(w) ==
  /\ IsFin(w.index) /\ w.index >= 0 /\ w.index % Scale = 0
  /\ (w.index \div Scale) + 3 \in DOMAIN data

\* the pixel slot (0 .. cw*ch - 1) the call of putPixel w addressed
Slot(w) == w.index \div (4 * Scale)

\* C1: one call of render writes every pixel slot 0 .. cw*ch-1 exactly once: no
\* write of putPixel lands outside the buffer, none lands on a slot already
\* written, and when render is done no slot is left unwritten.
C1_EveryPixelOnce ==
  /\ \A k \in DOMAIN writes : InBuffer(writes[k])
  /\ \A j, k \in DOMAIN writes : j # k => writes[j].index # writes[k].index
  /\ pc = "done" =>
       \A slot \in 0 .. (cw * ch - 1) : \E k \in DOMAIN writes : writes[k].index = Num(4 * slot)

\* the calls of the chain that wait for a reflected colour
Waiting == Cardinality({ i \in DOMAIN stack : stack[i].at = "await" })

\* a bound on the steps the traceRay calls in progress still take
Measure ==
  IF stack = << >> THEN 0
  ELSE Waiting + (IF Top.at = "enter" THEN 2 * Top.recursionDepth + 1 ELSE 0)

\* the innermost call can take its next step: it is about to intersect its ray,
\* or the call it waits for has returned
CanStep == Top.at = "enter" \/ (Top.at = "await" /\ ret # << >>)

\* C2: every nested traceRay call has recursionDepth >= 0 and the chain of nested
\* calls is at most RecursionDepth + 1 = 4 long, with depths 3, 2, 1, 0; every
\* top-level call terminates: while calls are in progress the innermost one can
\* always step, and every step lowers Measure, a natural number.
C2_RecursionBounded ==
  /\ [](/\ Len(stack) <= RecursionDepth + 1
        /\ \A i \in DOMAIN stack :
             /\ stack[i].recursionDepth >= 0
             /\ stack[i].recursionDepth = RecursionDepth - (i - 1)
        /\ stack # << >> => (pc = "trace" /\ CanStep)
        /\ Measure >= 0)
  /\ [][stack # << >> => Measure' < Measure]_vars

\* a call at depth 0 that hits a reflective surface, three calls waiting for it,
\* between two mirrors facing each other
C2_Witness ==
  /\ Scenes[scene] = MirrorScene
  /\ Len(stack) = RecursionDepth + 1
  /\ Top.at = "enter" /\ Top.recursionDepth = 0
  /\ ~IsMiss(Hit(Top))
  /\ Hit(Top).closestIntersection.reflective > 0
  /\ \A i \in 1 .. RecursionDepth : stack[i].r > 0

\* every t a primitive of sc reports along the ray, with the primitive and the
\* normal that go with it
SphereCandidates(sc, origin, viewportPoint) ==
  { [prim |-> sc.spheres[i],
     t |-> intersectRaySphere(origin, viewportPoint, sc.spheres[i])[k],
     normal |->
       SphereNormal(subtract(add(origin,
                                 multiplyByScalar(viewportPoint,
                                   intersectRaySphere(origin, viewportPoint, sc.spheres[i])[k])),
                             sc.spheres[i].C))]
    : i \in 1 .. Len(sc.spheres), k \in 1 .. 2 }

TriangleCandidates(sc, origin, viewportPoint) ==
  { [prim |-> sc.triangles[i],
     t |-> intersectRayTriangle(origin, viewportPoint, sc.triangles[i])[1],
     normal |-> intersectRayTriangle(origin, viewportPoint, sc.triangles[i])[2]]
    : i \in { j \in 1 .. Len(sc.triangles) :
                intersectRayTriangle(origin, viewportPoint, sc.triangles[j]) # << >> } }

Candidates(sc, origin, viewportPoint) ==
  SphereCandidates(sc, origin, viewportPoint) \cup TriangleCandidates(sc, origin, viewportPoint)

\* the candidates inside the open interval (tMin, tMax)
Within(cands, tMin, tMax) == { c \in cands : Gt(c.t, tMin) /\ Lt(c.t, tMax) }

ProbedIntersection == probe.op = "closestIntersection" /\ probe.called
ProbedLighting == probe.op = "computeLighting" /\ probe.called

\* C3: closestIntersection returns null exactly when no candidate t (both roots of
\* every sphere, the t of every triangle) lies in the open interval (tMin, tMax);
\* otherwise closestT is the least such candidate and the primitive and the normal
\* returned are those of a candidate with that t.
C3_ClosestIsMinimum ==
  ProbedIntersection =>
    LET inside == Within(Candidates(TheScene, probe.origin, probe.viewportPoint),
                         probe.tMin, probe.tMax)
    IN  /\ (probe.res.closestIntersection = Null) <=> (inside = {})
        /\ inside # {} =>
             /\ \A c \in inside : probe.res.closestT <= c.t
             /\ \E c \in inside : /\ c.prim = probe.res.closestIntersection
                                  /\ c.t = probe.res.closestT
                                  /\ c.normal = probe.res.closestNormal

\* a sphere wins over a triangle farther along the ray, and a root of that sphere
\* that lies exactly on an end of the interval was passed over
C3_Witness ==
  /\ ProbedIntersection
  /\ probe.res.closestIntersection # Null
  /\ probe.res.closestIntersection.kind = "sphere"
  /\ \E c \in Within(TriangleCandidates(TheScene, probe.origin, probe.viewportPoint),
                     probe.tMin, probe.tMax) : c.t > probe.res.closestT
  /\ \E c \in SphereCandidates(TheScene, probe.origin, probe.viewportPoint) :
       c.t = probe.tMin \/ c.t = probe.tMax

Finite3(v) == v # NullVec /\ \A k \in 1 .. 3 : IsFin(v[k])

\* normal . direction of the triangle's plane, as intersectRayTriangle computes it
PlaneDot(triangle, viewportPoint) ==
  dot(multiplyByScalar(cross(subtract(triangle.b, triangle.a),
                             subtract(triangle.c, triangle.a)),
                       Div(Num(1), length(cross(subtract(triangle.b, triangle.a),
                                                subtract(triangle.c, triangle.a))))),
      viewportPoint)

\* denom of the barycentric solve
Denom(triangle) ==
  Sub(Mul(dot(subtract(triangle.b, triangle.a), subtract(triangle.b, triangle.a)),
          dot(subtract(triangle.c, triangle.a), subtract(triangle.c, triangle.a))),
      Mul(dot(subtract(triangle.b, triangle.a), subtract(triangle.c, triangle.a)),
          dot(subtract(triangle.b, triangle.a), subtract(triangle.c, triangle.a))))

\* C4: a hit returned by closestIntersection has a finite t and a normal with
\* finite components; no sphere is returned when a = D.D is 0, and no triangle
\* whose plane the ray is parallel to or whose denom is 0.
C4_NoDivisionByZeroHit ==
  ProbedIntersection =>
    /\ probe.res.closestIntersection # Null =>
         IsFin(probe.res.closestT) /\ Finite3(probe.res.closestNormal)
    /\ \A i \in 1 .. Len(TheScene.spheres) :
         dot(probe.viewportPoint, probe.viewportPoint) = 0 =>
           probe.res.closestIntersection # TheScene.spheres[i]
    /\ \A i \in 1 .. Len(TheScene.triangles) :
         (PlaneDot(TheScene.triangles[i], probe.viewportPoint) = 0
            \/ Denom(TheScene.triangles[i]) = 0) =>
           probe.res.closestIntersection # TheScene.triangles[i]

\* (b - a) x (c - a) has length 0
ZeroArea(triangle) ==
  length(cross(subtract(triangle.b, triangle.a), subtract(triangle.c, triangle.a))) = 0

\* C5: closestIntersection never returns a zero-area triangle, whatever the ray
\* and the range.
C5_ZeroAreaNeverHit ==
  ProbedIntersection =>
    \A i \in 1 .. Len(TheScene.triangles) :
      ZeroArea(TheScene.triangles[i]) => probe.res.closestIntersection # TheScene.triangles[i]

\* intersectRayTriangle did not answer null for a zero-area triangle: it is the
\* range test of closestIntersection that passes it over
C5_Witness ==
  /\ ProbedIntersection
  /\ \E i \in 1 .. Len(TheScene.triangles) :
       /\ ZeroArea(TheScene.triangles[i])
       /\ intersectRayTriangle(probe.origin, probe.viewportPoint, TheScene.triangles[i]) # << >>

\* the sum of the intensities of the ambient lights, from light k on
RECURSIVE AmbientSum(_, _)
AmbientSum(lights, k) ==
  IF k > Len(lights) THEN 0
  ELSE (IF lights[k].type = "ambient" THEN lights[k].intensity ELSE 0)
       + AmbientSum(lights, k + 1)

\* the intensity when each light found shadowed adds nothing, each ambient light
\* its intensity, and each other light its diffuse and specular terms
RECURSIVE Unshadowed(_, _, _)
Unshadowed(lights, i, k) ==
  IF k > Len(lights) THEN i
  ELSE IF lights[k].type = "ambient" THEN Unshadowed(lights, i + lights[k].intensity, k + 1)
  ELSE IF probe.shadow[k] THEN Unshadowed(lights, i, k + 1)
  ELSE Unshadowed(lights,
                  Lit(i, lights[k],
                      IF lights[k].type = "point"
                      THEN subtract(lights[k].position, probe.point)
                      ELSE lights[k].direction,
                      probe.normal, probe.v, probe.s),
                  k + 1)

\* C6: a point or directional light for which closestIntersection reports a hit
\* in its shadow range adds nothing to the intensity, an ambient light adds its
\* intensity whatever the occluders; where every point and directional light is
\* shadowed the intensity is the sum of the ambient intensities.
C6_ShadowedAddsNothing ==
  ProbedLighting =>
    /\ probe.res = Unshadowed(TheScene.lights, 0, 1)
    /\ (\A k \in 1 .. Len(TheScene.lights) :
          TheScene.lights[k].type # "ambient" => probe.shadow[k])
         => probe.res = AmbientSum(TheScene.lights, 1)

\* every point and directional light is shadowed, and one of them faces the
\* surface: it would have added a diffuse term
C6_Witness ==
  /\ ProbedLighting
  /\ \A k \in 1 .. Len(TheScene.lights) :
       TheScene.lights[k].type # "ambient" => probe.shadow[k]
  /\ \E k \in 1 .. Len(TheScene.lights) :
       /\ TheScene.lights[k].type = "point"
       /\ dot(probe.normal, subtract(TheScene.lights[k].position, probe.point)) > 0
  /\ probe.res > 0

\* C7: a traceRay call that hits a surface of local colour local and reflectivity
\* r returns local and calls nothing when recursionDepth <= 0 or r <= 0; otherwise
\* it makes one call of traceRay from the hit point along the reflected ray with
\* tMin = 0.001, tMax = Infinity and recursionDepth - 1, and then returns, per
\* channel, local * (1 - r) + reflected * r.
C7_LocalOrBlend ==
  [][(pc = "trace" /\ stack # << >>) =>
       /\ (Top.at = "enter" /\ ~IsMiss(Hit(Top))) =>
            IF Top.recursionDepth <= 0 \/ Hit(Top).closestIntersection.reflective <= 0
            THEN /\ ret' = << LocalColor(Top, Hit(Top)) >>
                 /\ stack' = SubSeq(stack, 1, Len(stack) - 1)
            ELSE /\ Len(stack') = Len(stack) + 1
                 /\ SubSeq(stack', 1, Len(stack) - 1) = SubSeq(stack, 1, Len(stack) - 1)
                 /\ stack'[Len(stack)].at = "await"
                 /\ stack'[Len(stack)].color = LocalColor(Top, Hit(Top))
                 /\ stack'[Len(stack)].r = Hit(Top).closestIntersection.reflective
                 /\ stack'[Len(stack')] =
                      [origin |-> HitPoint(Top, Hit(Top)),
                       viewportPoint |->
                         reflectRay(multiplyByScalar(Top.viewportPoint, Num(-1)),
                                    Hit(Top).closestNormal),
                       tMin |-> 1, tMax |-> PInf,
                       recursionDepth |-> Top.recursionDepth - 1,
                       at |-> "enter", color |-> NullVec, r |-> 0]
                 /\ ret' = ret
       /\ Top.at = "await" =>
            /\ ret # << >>
            /\ ret' = << [c \in 1 .. 3 |->
                            Add(Mul(Top.color[c], Sub(Num(1), Top.r)),
                                Mul(ret[1][c], Top.r))] >>
            /\ stack' = SubSeq(stack, 1, Len(stack) - 1)]_vars

\* a call on a partly reflective surface whose reflected ray has been traced to
\* another colour than its local one: it is about to blend the two
C7_Witness ==
  /\ pc = "trace" /\ stack # << >>
  /\ Top.at = "await" /\ ret # << >>
  /\ Top.r > 0 /\ Top.r < Num(1)
  /\ ret[1] # Top.color
  /\ Top.color # << 0, 0, 0 >> /\ ret[1] # << 0, 0, 0 >>

\* stored is the byte nearest to v inside [0, 255]
Nearest(stored, v) ==
  IF IsNaN(v) \/ v <= 0 THEN stored = 0
  ELSE IF v >= Num(255) THEN stored = 255
  ELSE 2 * Abs(stored * Scale - v) <= Scale

\* C8: for every pixel render has written, the R, G and B bytes of the buffer lie
\* in [0, 255], each the nearest byte to its own channel of the traced colour
\* (255 above the range, 0 below), and the alpha byte is 255.
C8_ChannelsClamped ==
  pc # "cleared" =>
    \A k \in DOMAIN writes :
      InBuffer(writes[k]) =>
        /\ \A c \in 1 .. 3 :
             /\ data[(writes[k].index \div Scale) + c - 1] \in 0 .. 255
             /\ Nearest(data[(writes[k].index \div Scale) + c - 1], writes[k].color[c])
        /\ data[(writes[k].index \div Scale) + 3] = 255

\* a written pixel whose traced red exceeds 255 and is stored as 255 while its
\* green, inside the range, is stored as it is
C8_Witness ==
  /\ pc = "done"
  /\ \E k \in DOMAIN writes :
       /\ InBuffer(writes[k])
       /\ writes[k].color[1] > Num(255)
       /\ data[writes[k].index \div Scale] = 255
       /\ writes[k].color[2] > 0 /\ writes[k].color[2] < Num(254)
       /\ data[(writes[k].index \div Scale) + 1] \in 1 .. 254
       /\ data[(writes[k].index \div Scale) + 3] = 255

\* the camera ray of pixel (cx, cy) hits nothing
CameraMiss(cx, cy) ==
  IsMiss(closestIntersection(TheScene, << 0, 0, 0 >>, canvasToViewport(cx, cy), Num(1), PInf))

\* the ray of the call the innermost waiting call has made hits nothing
ReflectedMiss == IsMiss(Hit(ReflectedFrame(Top, Hit([Top EXCEPT !.at = "enter"]))))

\* C9: a traceRay call whose ray hits nothing returns the background colour, at
\* any depth, without a call of computeLighting; a camera ray that hits nothing
\* writes the background colour to its pixel.
C9_MissGivesBackground ==
  /\ (pc = "trace" /\ stack # << >> /\ Top.at = "await" /\ ret # << >> /\ ReflectedMiss)
       => ret = << backgroundColor >>
  /\ pc # "cleared" =>
       \A k \in DOMAIN writes :
         CameraMiss(writes[k].cx, writes[k].cy) =>
           /\ writes[k].color = backgroundColor
           /\ writes[k].shades = 0
           /\ InBuffer(writes[k])
           /\ \A c \in 1 .. 3 :
                data[(writes[k].index \div Scale) + c - 1] = ToUint8Clamp(backgroundColor[c])
           /\ data[(writes[k].index \div Scale) + 3] = 255

\* C10: a point light is shadowed exactly when a primitive has a hit parameter t
\* with 0.001 < t < 1 along the vector position - point, not normalized; a
\* directional light exactly when one has a hit parameter t > 0.001 along the
\* light's direction.
C10_ShadowRange ==
  ProbedLighting =>
    \A k \in 1 .. Len(TheScene.lights) :
      /\ TheScene.lights[k].type = "point" =>
           (probe.shadow[k] <=>
              \E c \in Candidates(TheScene, probe.point,
                                  subtract(TheScene.lights[k].position, probe.point)) :
                Gt(c.t, 1) /\ Lt(c.t, Num(1)))
      /\ TheScene.lights[k].type = "directional" =>
           (probe.shadow[k] <=>
              \E c \in Candidates(TheScene, probe.point, TheScene.lights[k].direction) :
                Gt(c.t, 1) /\ IsFin(c.t))

\* a surface lies along L beyond a point light (every hit parameter >= 1) and
\* leaves it unshadowed, while it shadows a directional light
C10_Witness ==
  /\ ProbedLighting
  /\ \E k \in 1 .. Len(TheScene.lights) :
       /\ TheScene.lights[k].type = "point"
       /\ ~probe.shadow[k]
       /\ \E c \in Candidates(TheScene, probe.point,
                              subtract(TheScene.lights[k].position, probe.point)) :
            Ge(c.t, Num(1)) /\ IsFin(c.t)
  /\ \E k \in 1 .. Len(TheScene.lights) :
       TheScene.lights[k].type = "directional" /\ probe.shadow[k]

====
